---- MODULE Spec2Model ----
(***************************************************************************)
(* Model of the NotesAI application (itsGods/Notes-to-Store-).             *)
(*                                                                         *)
(* The repository holds two revisions of the App component                  *)
(* (src/unnamed/part_000 and src/unnamed/part_001), the storage service     *)
(* (appended to src/components/IOSComponents.tsx, lines 100-270) and the    *)
(* database schema (appended to src/unnamed/part_001, lines 486-550).       *)
(* The variable app fixes which revision of App is running.                 *)
(*                                                                         *)
(* Strings are sequences of one-character strings.  Every asynchronous      *)
(* handler is a task: it is created by the handler's synchronous prefix,    *)
(* and each later step is the completion of the remote call it awaits       *)
(* followed by the code up to the next await.                               *)
(*                                                                         *)
(* Spec is the whole application from its mount; SpecEditor, SpecList and   *)
(* SpecAI start from a signed-in user in the editor, in the list and in     *)
(* part_000's editor with its AI menu.                                      *)
(***************************************************************************)
EXTENDS Integers, Sequences, FiniteSets, TLC

VARIABLES app, currentUser, currentView, notes, selectedNote,
          editorTitle, editorContent, isSaving, isLoadingAuth,
          db, session, now, nextId, tasks, ev, steps,
          searchQuery, isProcessingAI, skew

vars == <<app, currentUser, currentView, notes, selectedNote,
          editorTitle, editorContent, isSaving, isLoadingAuth,
          db, session, now, nextId, tasks, ev, steps,
          searchQuery, isProcessingAI, skew>>

----------------------------------------------------------------------------
(* Bounds *)

MaxActions == 5

MaxTail == 2

MaxSkew == 1

----------------------------------------------------------------------------
(* Values *)

Apps == {"part_000", "part_001"}

Users == {"u1", "u2"}

NoUser == "null"

SP == " "

NL == "\n"

IsSpace(ch) == ch \in {SP, NL}

NewNote == <<"N", "e", "w", " ", "N", "o", "t", "e">>

TitleMax == 30

Note(id, uid, t, c, ts) ==
  [id |-> id, user_id |-> uid, title |-> t, content |-> c, updated_at |-> ts]

Null == Note(0, NoUser, <<>>, <<>>, 0)

----------------------------------------------------------------------------
(* String functions of the JavaScript runtime used by the handlers *)

RECURSIVE TrimStart(_)
TrimStart(s) ==
  IF s # <<>> /\ IsSpace(Head(s)) THEN TrimStart(Tail(s)) ELSE s

RECURSIVE TrimEnd(_)
TrimEnd(s) ==
  IF s # <<>> /\ IsSpace(s[Len(s)]) THEN TrimEnd(SubSeq(s, 1, Len(s) - 1)) ELSE s

Trim(s) == TrimEnd(TrimStart(s))

RECURSIVE FirstLine(_)
FirstLine(s) ==
  IF s = <<>> \/ Head(s) = NL THEN <<>> ELSE <<Head(s)>> \o FirstLine(Tail(s))

Substring(s, n) == SubSeq(s, 1, IF Len(s) < n THEN Len(s) ELSE n)

Or(s, dflt) == IF s = <<>> THEN dflt ELSE s

----------------------------------------------------------------------------
(* The remote store: table public.notes with its row-level security         *)
(* policies, and the storage service that talks to it.  tok is the user     *)
(* the request is authenticated as (auth.uid()), NoUser when signed out.    *)

Rows(table, id) == {r \in table : r.id = id}

UpsertInsertOnly(table, note, clock) == table \cup {note}

(* INSERT ... ON CONFLICT (id) DO UPDATE: the inserted row must satisfy the  *)
(* insert policy, a conflicting row must satisfy the update policy, and the  *)
(* update trigger overwrites updated_at with the server's now().             *)
UpsertAllowed(table, note, tok) ==
  /\ tok # NoUser
  /\ note.user_id = tok
  /\ \A r \in Rows(table, note.id) : r.user_id = tok

handle_updated_at(new, clock) == [new EXCEPT !.updated_at = clock]

Upsert(table, note, clock) ==
  IF Rows(table, note.id) = {}
  THEN table \cup {note}
  ELSE (table \ Rows(table, note.id)) \cup {handle_updated_at(note, clock)}

(* DELETE ... WHERE id = noteId, restricted by the delete policy. *)
Delete(table, id, tok) == {r \in table : ~(r.id = id /\ r.user_id = tok /\ tok # NoUser)}

(* SELECT * WHERE user_id = userId ORDER BY updated_at DESC, restricted by  *)
(* the select policy.  Rows with equal updated_at come in any order.        *)
Visible(table, userId, tok) ==
  {r \in table : r.user_id = userId /\ r.user_id = tok /\ tok # NoUser}

RECURSIVE OrderDesc(_)
OrderDesc(S) ==
  IF S = {} THEN {<<>>}
  ELSE UNION {{<<x>> \o s : s \in OrderDesc(S \ {x})} :
                x \in {y \in S : \A z \in S : y.updated_at >= z.updated_at}}

Select(table, userId, tok) == OrderDesc(Visible(table, userId, tok))

(* getNotes: the rows on success, [] on an error result or a thrown error. *)
getNotes(table, userId, tok, ok) ==
  IF ok THEN Select(table, userId, tok) ELSE {<<>>}

(* saveNote: throws unless the upsert succeeds. *)
saveNoteThrows(table, note, tok, ok) == ~(ok /\ UpsertAllowed(table, note, tok))

(* deleteNote: the table after the call; errors are logged and swallowed. *)
deleteNote(table, id, tok, ok) == IF ok THEN Delete(table, id, tok) ELSE table

----------------------------------------------------------------------------
(* Save policy of saveCurrentNote *)

IsDiscardNoTrim(t, c) == t = <<>> /\ c = <<>>

(* Both revisions: nothing to save when title and content trim to empty. *)
IsDiscard(t, c) == Trim(t) = <<>> /\ Trim(c) = <<>>

titleToSaveNoDefault(t, c) ==
  IF Trim(t) # <<>> THEN Trim(t) ELSE Substring(FirstLine(c), TitleMax)

titleToSaveNoCut(t, c) ==
  IF Trim(t) # <<>> THEN Trim(t) ELSE Or(FirstLine(c), NewNote)

(* part_001: trimmed title, else the first line of the content cut to      *)
(* TitleMax characters, else 'New Note'.                                    *)
titleToSave(t, c) ==
  IF Trim(t) # <<>> THEN Trim(t)
  ELSE IF c # <<>> THEN Or(Substring(FirstLine(c), TitleMax), NewNote)
  ELSE NewNote

(* part_000: title: editorTitle || 'New Note'. *)
titleToSave000(t) == Or(t, NewNote)

ResolveTitle(a, t, c) == IF a = "part_001" THEN titleToSave(t, c) ELSE titleToSave000(t)

----------------------------------------------------------------------------
(* Tasks: the asynchronous handlers in flight.  pc names the remote call    *)
(* the handler awaits; user, tok, note and exit are what its closure and    *)
(* its pending request hold.                                                *)

Task(op, pc, user, tok, note, exit) ==
  [op |-> op, pc |-> pc, user |-> user, tok |-> tok, note |-> note, exit |-> exit,
   prev |-> ""]

(* The task about to await loadNotes; prev records how the remote call it   *)
(* awaited before ended (the handler itself does not keep it).              *)
Reload(t, tok, res) == [t EXCEPT !.pc = "load", !.tok = tok, !.prev = res]

RemoveAt(q, i) == SubSeq(q, 1, i - 1) \o SubSeq(q, i + 1, Len(q))

Event(h, op, res, out) == [h |-> h, op |-> op, res |-> res, out |-> out]

Result(ok) == IF ok THEN "ok" ELSE "err"

Elems(q) == {q[i] : i \in 1..Len(q)}

(* Drafts typed in the editor of the running application *)
EditTitles == {<<>>, <<"a">>}

EditContents == {<<>>, <<"b">>}

InitTables == {{}, {Note(1, "u1", <<"a">>, <<"b">>, 0)}}

Init ==
  /\ app \in Apps
  /\ currentUser = NoUser
  /\ currentView = "AUTH"
  /\ notes = <<>>
  /\ selectedNote = Null
  /\ editorTitle = <<>>
  /\ editorContent = <<>>
  /\ isSaving = FALSE
  /\ isLoadingAuth = FALSE
  /\ db \in InitTables
  /\ session \in Users \cup {NoUser}
  /\ now = 0
  /\ nextId = Cardinality(db) + 1
  /\ tasks = <<Task("init", "session", NoUser, NoUser, Null, FALSE)>>
  /\ ev = Event("mount", "init", "", "")
  /\ steps = 0
  /\ searchQuery = <<>>
  /\ isProcessingAI = FALSE
  /\ skew \in 0..MaxSkew

editor == <<selectedNote, editorTitle, editorContent>>

remote == <<db, session, now>>

(* The search box of the list and the AI menu of part_000's editor *)
aux == <<searchQuery, isProcessingAI, skew>>

(* new Date() in the browser: the client's clock runs skew ticks ahead of   *)
(* the clock of the database server.                                        *)
clientNow == now + skew

(* A user gesture or a clock tick: the model explores MaxActions of them. *)
Gesture == steps < MaxActions /\ steps' = steps + 1

(* Whether a call of the storage service throws when its request fails     *)
(* (ok is false): every function but saveNote catches and returns.          *)
getSessionUserThrows(ok) == FALSE

loginUserThrows(ok) == FALSE

registerUserThrows(ok) == FALSE

logoutUserThrows(ok) == FALSE

getNotesThrows(ok) == FALSE

deleteNoteRethrows(ok) == ~ok

deleteNoteThrows(ok) == FALSE

(* The handlers whose awaits are inside try / catch: initSession,           *)
(* handleAuth and saveCurrentNote.  handleLoginSuccess ("login"),           *)
(* deleteCurrentNote and handleLogout have none.                            *)
Catching == {"init", "auth", "save"}

(* The call awaited by task i throws: the handler ends, in its catch and    *)
(* finally blocks if it has them, as an unhandled rejection if not.         *)
Thrown(i, call) ==
  LET t == tasks[i] IN
  /\ tasks' = RemoveAt(tasks, i)
  /\ ev' = Event(call, t.op, "err", IF t.op \in Catching THEN "caught" ELSE "fault")
  /\ isSaving' = IF t.op = "save" THEN FALSE ELSE isSaving
  /\ isLoadingAuth' = IF t.op = "auth" THEN FALSE ELSE isLoadingAuth
  /\ UNCHANGED <<app, currentUser, currentView, notes, editor, remote, nextId>>

(* initSession, after await getSessionUser(): the session's user, or null   *)
(* on an error result or a thrown error.                                    *)
getSessionUserDone(i) ==
  /\ UNCHANGED <<steps, aux>>
  /\ tasks[i].pc = "session"
  /\ \E ok \in BOOLEAN :
       IF getSessionUserThrows(ok) THEN Thrown(i, "getSessionUser")
       ELSE
       LET user == IF ok THEN session ELSE NoUser IN
       /\ IF user # NoUser
          THEN /\ currentUser' = user
               /\ tasks' = [tasks EXCEPT ![i] = Task("init", "load", user, session, Null, FALSE)]
          ELSE /\ currentUser' = currentUser
               /\ tasks' = RemoveAt(tasks, i)
       /\ ev' = Event("getSessionUser", "init", Result(ok), "")
       /\ UNCHANGED <<app, currentView, notes, editor, isSaving, isLoadingAuth, remote,
                      nextId>>

loadNotesMerge(old, userNotes) == old \o userNotes

loadNotesKeepsLocal(old, userNotes) ==
  userNotes \o SelectSeq(old, LAMBDA n : \A k \in 1..Len(userNotes) : userNotes[k].id # n.id)

(* loadNotes, after await getNotes(userId): setNotes(userNotes). *)
loadNotes(old, userNotes) == userNotes

(* The completion of a loadNotes call and the rest of the handler that      *)
(* awaited it.                                                              *)
loadNotesDone(i) ==
  LET t == tasks[i] IN
  /\ UNCHANGED <<steps, aux>>
  /\ t.pc = "load"
  /\ \E ok \in BOOLEAN :
       IF getNotesThrows(ok) THEN Thrown(i, "loadNotes")
       ELSE
       /\ \E userNotes \in getNotes(db, t.user, t.tok, ok) :
            /\ notes' = loadNotes(notes, userNotes)
            /\ ev' = Event("loadNotes", t.op, Result(ok), "")
       /\ currentView' = IF t.op = "save" /\ ~t.exit THEN currentView ELSE "LIST"
       /\ selectedNote' = IF t.op = "save" /\ ~t.exit THEN t.note ELSE selectedNote
       /\ isSaving' = IF t.op = "save" THEN FALSE ELSE isSaving
       /\ tasks' = RemoveAt(tasks, i)
       /\ UNCHANGED <<app, currentUser, editorTitle, editorContent, isLoadingAuth, remote,
                      nextId>>

(* authMode: the call handleAuth makes *)
AuthModes == {"login", "signup"}

authThrows(authMode, ok) ==
  IF authMode = "signup" THEN registerUserThrows(ok) ELSE loginUserThrows(ok)

(* What handleAuth shows when no user is returned: registerUser's 'check    *)
(* your email' goes to authSuccess, every other error to authError.         *)
authMessages(authMode) ==
  IF authMode = "signup" THEN {"authError", "authSuccess"} ELSE {"authError"}

(* handleAuth up to its await: cred is the account the form's fields name,  *)
(* NoUser when a field is empty.                                            *)
handleAuth(cred, authMode) ==
  /\ Gesture /\ UNCHANGED aux
  /\ currentView = "AUTH"
  /\ ~isLoadingAuth
  /\ IF cred = NoUser
     THEN /\ ev' = Event("handleAuth", "auth", "", "authError")
          /\ UNCHANGED <<tasks, isLoadingAuth>>
     ELSE /\ isLoadingAuth' = TRUE
          /\ tasks' = Append(tasks, Task("auth", authMode, cred, session, Null, FALSE))
          /\ ev' = Event("handleAuth", "auth", "", "")
  /\ UNCHANGED <<app, currentUser, currentView, notes, editor, isSaving, remote, nextId>>

(* handleAuth after await loginUser/registerUser: handleLoginSuccess(user)  *)
(* runs up to its await of loadNotes and is not awaited; finally clears     *)
(* isLoadingAuth.                                                           *)
handleAuthDone(i) ==
  LET t == tasks[i] IN
  /\ UNCHANGED <<steps, aux>>
  /\ t.pc \in AuthModes
  /\ \E ok \in BOOLEAN :
       IF authThrows(t.pc, ok) THEN Thrown(i, "handleAuth")
       ELSE
       /\ IF ok
          THEN /\ session' = t.user
               /\ currentUser' = t.user
               /\ tasks' = [tasks EXCEPT ![i] =
                               Task("login", "load", t.user, t.user, Null, FALSE)]
               /\ ev' = Event("handleAuth", "auth", "ok", "")
          ELSE /\ UNCHANGED <<session, currentUser>>
               /\ tasks' = RemoveAt(tasks, i)
               /\ \E msg \in authMessages(t.pc) : ev' = Event("handleAuth", "auth", "err", msg)
       /\ isLoadingAuth' = FALSE
       /\ UNCHANGED <<app, currentView, notes, editor, isSaving, db, now, nextId>>

(* handleLogout up to await logoutUser(). *)
handleLogout ==
  /\ Gesture /\ UNCHANGED aux
  /\ currentView = "LIST"
  /\ tasks' = Append(tasks, Task("logout", "signout", currentUser, session, Null, FALSE))
  /\ ev' = Event("handleLogout", "logout", "", "")
  /\ UNCHANGED <<app, currentUser, currentView, notes, editor, isSaving, isLoadingAuth,
                 remote, nextId>>

signedOutNotesKept(old) == old

(* handleLogout: setNotes([]). *)
signedOutNotes(old) == <<>>

(* handleLogout after await logoutUser(), which swallows its errors. *)
handleLogoutDone(i) ==
  /\ UNCHANGED <<steps, aux>>
  /\ tasks[i].pc = "signout"
  /\ \E ok \in BOOLEAN :
       IF logoutUserThrows(ok) THEN Thrown(i, "logoutUser")
       ELSE
       /\ session' = IF ok THEN NoUser ELSE session
       /\ ev' = Event("logoutUser", "logout", Result(ok), "")
       /\ currentUser' = NoUser
       /\ notes' = signedOutNotes(notes)
       /\ currentView' = "AUTH"
       /\ tasks' = RemoveAt(tasks, i)
       /\ UNCHANGED <<app, editor, isSaving, isLoadingAuth, db, now, nextId>>

(* The list view: search filter and recency groups.  Time is counted in    *)
(* ticks of half a day, and a calendar day is TicksPerDay ticks.            *)

TicksPerDay == 2

Thirty == 30

ThirtyDays == Thirty * TicksPerDay

toLowerCaseNone(s) == s

(* String.prototype.toLowerCase on the letters the model types *)
toLowerCase(s) ==
  [i \in 1..Len(s) |-> IF s[i] = "A" THEN "a" ELSE IF s[i] = "B" THEN "b" ELSE s[i]]

(* String.prototype.includes *)
includes(s, q) ==
  \E i \in 0..(Len(s) - Len(q)) : SubSeq(s, i + 1, i + Len(q)) = q

(* The predicate both revisions filter with, for a non-empty query *)
matchesQuery(n, query) ==
  LET q == toLowerCase(query) IN
  includes(toLowerCase(n.title), q) \/ includes(toLowerCase(n.content), q)

(* part_000: filteredNotes *)
filteredNotes(list, query) ==
  IF query = <<>> THEN list ELSE SelectSeq(list, LAMBDA n : matchesQuery(n, query))

(* part_001: const filtered = notes.filter(...) inside groupedNotes *)
filtered(list, query) ==
  SelectSeq(list, LAMBDA n : query = <<>> \/ matchesQuery(n, query))

GroupKeys == <<"Today", "Yesterday", "Previous 30 Days", "Older">>

Day(t) == t \div TicksPerDay

isSameDay(d1, d2) == Day(d1) = Day(d2)

groupOfNoYesterday(date, today) ==
  IF isSameDay(date, today) THEN "Today"
  ELSE IF today - date < ThirtyDays THEN "Previous 30 Days"
  ELSE "Older"

(* The branch of filtered.forEach a note with this date takes; yesterday is *)
(* today with setDate(getDate() - 1).                                       *)
groupOf(date, today) ==
  LET yesterday == today - TicksPerDay IN
  IF isSameDay(date, today) THEN "Today"
  ELSE IF isSameDay(date, yesterday) THEN "Yesterday"
  ELSE IF today - date < ThirtyDays THEN "Previous 30 Days"
  ELSE "Older"

groupedNotesUnfiltered(list, query, today) ==
  IF list = <<>>
  THEN [g \in {} |-> <<>>]
  ELSE [g \in Elems(GroupKeys) |->
          SelectSeq(list, LAMBDA n : groupOf(n.updated_at, today) = g)]

(* part_001: groupedNotes, {} for an empty collection *)
groupedNotes(list, query, today) ==
  IF list = <<>>
  THEN [g \in {} |-> <<>>]
  ELSE [g \in Elems(GroupKeys) |->
          SelectSeq(filtered(list, query), LAMBDA n : groupOf(n.updated_at, today) = g)]

RECURSIVE Concat(_, _)
Concat(groups, keys) ==
  IF keys = <<>> \/ DOMAIN groups = {} THEN <<>>
  ELSE groups[Head(keys)] \o Concat(groups, Tail(keys))

(* The notes the list view renders as cards *)
Displayed ==
  IF app = "part_000" THEN filteredNotes(notes, searchQuery)
  ELSE Concat(groupedNotes(notes, searchQuery, clientNow), GroupKeys)

QueryChars == {"a", "A", "b"}

setSearchQuery(q) ==
  /\ Gesture
  /\ currentView = "LIST"
  /\ q # searchQuery
  /\ searchQuery' = q
  /\ ev' = Event("setSearchQuery", "", "", "")
  /\ UNCHANGED <<app, currentUser, currentView, notes, editor, isSaving, isLoadingAuth,
                 remote, nextId, tasks, isProcessingAI, skew>>

openNote(note) ==
  /\ Gesture /\ UNCHANGED aux
  /\ currentView = "LIST"
  /\ selectedNote' = note
  /\ editorTitle' = note.title
  /\ editorContent' = note.content
  /\ currentView' = "EDITOR"
  /\ ev' = Event("openNote", "", "", "")
  /\ UNCHANGED <<app, currentUser, notes, isSaving, isLoadingAuth, remote, nextId, tasks>>

createNewNote ==
  /\ Gesture /\ UNCHANGED aux
  /\ currentView = "LIST"
  /\ selectedNote' = Null
  /\ editorTitle' = <<>>
  /\ editorContent' = <<>>
  /\ currentView' = "EDITOR"
  /\ ev' = Event("createNewNote", "", "", "")
  /\ UNCHANGED <<app, currentUser, notes, isSaving, isLoadingAuth, remote, nextId, tasks>>

setEditorTitle(t) ==
  /\ Gesture /\ UNCHANGED aux
  /\ currentView = "EDITOR"
  /\ t # editorTitle
  /\ editorTitle' = t
  /\ ev' = Event("setEditorTitle", "", "", "")
  /\ UNCHANGED <<app, currentUser, currentView, notes, selectedNote, editorContent,
                 isSaving, isLoadingAuth, remote, nextId, tasks>>

setEditorContent(c) ==
  /\ Gesture /\ UNCHANGED aux
  /\ currentView = "EDITOR"
  /\ c # editorContent
  /\ editorContent' = c
  /\ ev' = Event("setEditorContent", "", "", "")
  /\ UNCHANGED <<app, currentUser, currentView, notes, selectedNote, editorTitle,
                 isSaving, isLoadingAuth, remote, nextId, tasks>>

(* The note saveCurrentNote builds: the selected note's id or a fresh       *)
(* crypto.randomUUID(), the resolved title, the content as typed, and the   *)
(* client's current time.                                                   *)
noteToSave ==
  Note(IF selectedNote # Null THEN selectedNote.id ELSE nextId,
       currentUser,
       ResolveTitle(app, editorTitle, editorContent),
       editorContent,
       clientNow)

saveRequestsConcurrent(t) == <<t, Reload(t, t.tok, "")>>

(* saveCurrentNote: await saveNote(noteToSave) is the one request the       *)
(* handler has in flight; loadNotes is called after it has returned.        *)
saveRequests(t) == <<t>>

(* saveCurrentNote up to await saveNote(noteToSave). *)
saveCurrentNote(shouldExit) ==
  /\ Gesture /\ UNCHANGED aux
  /\ IF currentUser = NoUser
     THEN /\ ev' = Event("saveCurrentNote", "save", "", "return")
          /\ UNCHANGED <<currentView, isSaving, nextId, tasks>>
     ELSE IF IsDiscard(editorTitle, editorContent)
     THEN /\ currentView' = IF shouldExit THEN "LIST" ELSE currentView
          /\ ev' = Event("saveCurrentNote", "save", "", "discard")
          /\ UNCHANGED <<isSaving, nextId, tasks>>
     ELSE /\ isSaving' = TRUE
          /\ nextId' = IF selectedNote = Null THEN nextId + 1 ELSE nextId
          /\ tasks' = tasks \o saveRequests(Task("save", "upsert", currentUser, session,
                                                 noteToSave, shouldExit))
          /\ ev' = Event("saveCurrentNote", "save", "", "saving")
          /\ UNCHANGED currentView
  /\ UNCHANGED <<app, currentUser, notes, editor, isLoadingAuth, remote>>

(* part_001: the editor's back button, never disabled. *)
handleBack ==
  /\ app = "part_001"
  /\ currentView = "EDITOR"
  /\ saveCurrentNote(TRUE)

(* part_000: the editor's back button calls saveCurrentNote, which always   *)
(* leaves the editor, and is disabled while isSaving.                       *)
backButton ==
  /\ app = "part_000"
  /\ currentView = "EDITOR"
  /\ ~isSaving
  /\ saveCurrentNote(TRUE)

afterSaveNoteNoCatch(threw) == "loadNotes"

(* saveCurrentNote, the try block around await saveNote(noteToSave): a     *)
(* throw goes to the catch block, anything else goes on to loadNotes.       *)
afterSaveNote(threw) == IF threw THEN "catch" ELSE "loadNotes"

(* saveCurrentNote after await saveNote(noteToSave): the catch block alerts *)
(* and finally clears isSaving; otherwise loadNotes is called.              *)
saveNoteDone(i) ==
  LET t == tasks[i] IN
  /\ UNCHANGED <<steps, aux>>
  /\ t.pc = "upsert"
  /\ \E ok \in BOOLEAN :
       LET threw == saveNoteThrows(db, t.note, t.tok, ok) IN
       /\ db' = IF threw THEN db ELSE Upsert(db, t.note, now)
       /\ IF afterSaveNote(threw) = "catch"
          THEN /\ isSaving' = FALSE
               /\ tasks' = RemoveAt(tasks, i)
               /\ ev' = Event("saveNote", "save", Result(~threw), "alert")
          ELSE /\ tasks' = [tasks EXCEPT ![i] = Reload(t, session, Result(~threw))]
               /\ ev' = Event("saveNote", "save", Result(~threw), "")
               /\ UNCHANGED isSaving
  /\ UNCHANGED <<app, currentUser, currentView, notes, editor, isLoadingAuth,
                 session, now, nextId>>

hasPersistedNoteNoCheck(sel, user) == user # NoUser

(* deleteCurrentNote: if (selectedNote && currentUser). *)
hasPersistedNote(sel, user) == sel # Null /\ user # NoUser

(* deleteCurrentNote up to await deleteNote(selectedNote.id); part_001 asks *)
(* for confirmation first.                                                  *)
deleteCurrentNote(confirmed) ==
  /\ Gesture /\ UNCHANGED aux
  /\ currentView = "EDITOR"
  /\ app = "part_000" => confirmed
  /\ IF hasPersistedNote(selectedNote, currentUser)
     THEN IF confirmed
          THEN /\ tasks' = Append(tasks, Task("delete", "delete", currentUser, session,
                                              selectedNote, TRUE))
               /\ ev' = Event("deleteCurrentNote", "delete", "", "deleting")
               /\ UNCHANGED currentView
          ELSE /\ ev' = Event("deleteCurrentNote", "delete", "", "cancel")
               /\ UNCHANGED <<tasks, currentView>>
     ELSE /\ currentView' = "LIST"
          /\ ev' = Event("deleteCurrentNote", "delete", "", "discard")
          /\ UNCHANGED tasks
  /\ UNCHANGED <<app, currentUser, notes, editor, isSaving, isLoadingAuth, remote, nextId>>

(* deleteCurrentNote after await deleteNote(id): loadNotes is called. *)
deleteNoteDone(i) ==
  LET t == tasks[i] IN
  /\ UNCHANGED <<steps, aux>>
  /\ t.pc = "delete"
  /\ \E ok \in BOOLEAN :
       IF deleteNoteThrows(ok) THEN Thrown(i, "deleteNote")
       ELSE
       /\ db' = deleteNote(db, t.note.id, t.tok, ok)
       /\ ev' = Event("deleteNote", "delete", Result(ok), "")
       /\ tasks' = [tasks EXCEPT ![i] = Reload(t, session, ev'.res)]
       /\ UNCHANGED <<app, currentUser, currentView, notes, editor, isSaving,
                      isLoadingAuth, session, now, nextId>>

(* Time passes. *)
Tick ==
  /\ Gesture /\ UNCHANGED aux
  /\ now' = now + 1
  /\ ev' = Event("tick", "", "", "")
  /\ UNCHANGED <<app, currentUser, currentView, notes, editor, isSaving, isLoadingAuth,
                 db, session, nextId, tasks>>

(* part_000: the AI menu of the editor. *)

AIActionType == {"FIX_GRAMMAR", "SUMMARIZE", "CONTINUE_WRITING"}

(* Texts the model lets the generation service answer *)
AITexts == {<<>>, <<SP>>, <<SP, "c">>}

(* processNoteWithAI: the outcomes of the call.  Without an API key it      *)
(* returns the content; a failure of generateContent is thrown again;       *)
(* otherwise the answer is response.text?.trim() || content.                *)
processNoteWithAI(content) ==
  {[threw |-> FALSE, text |-> content], [threw |-> TRUE, text |-> <<>>]}
    \cup {[threw |-> FALSE, text |-> Or(Trim(r), content)] : r \in AITexts}

afterProcessNoteWithAIClears(content, out) == IF out.threw THEN <<>> ELSE out.text

(* handleAIAction, try / catch: setEditorContent(result) unless the call    *)
(* threw, in which case the catch block only alerts.                        *)
afterProcessNoteWithAI(content, out) == IF out.threw THEN content ELSE out.text

(* The overlay rendered over the editor while isProcessingAI *)
aiOverlay == currentView = "EDITOR" /\ isProcessingAI

(* handleAIAction up to await processNoteWithAI(editorContent, action); the *)
(* menu's buttons are disabled while isProcessingAI.                        *)
handleAIAction(action) ==
  /\ Gesture
  /\ app = "part_000"
  /\ currentView = "EDITOR"
  /\ ~isProcessingAI
  /\ IF editorContent = <<>>
     THEN /\ ev' = Event("handleAIAction", "ai", "", "return")
          /\ UNCHANGED <<tasks, isProcessingAI>>
     ELSE /\ isProcessingAI' = TRUE
          /\ tasks' = Append(tasks, Task("ai", "ai", currentUser, session,
                                         Note(0, NoUser, <<>>, editorContent, 0), FALSE))
          /\ ev' = Event("handleAIAction", "ai", "", "processing")
  /\ UNCHANGED <<app, currentUser, currentView, notes, editor, isSaving, isLoadingAuth,
                 remote, nextId, searchQuery, skew>>

(* handleAIAction after await processNoteWithAI: finally clears             *)
(* isProcessingAI.                                                          *)
processNoteWithAIDone(i) ==
  LET t == tasks[i] IN
  /\ UNCHANGED steps
  /\ t.pc = "ai"
  /\ \E out \in processNoteWithAI(t.note.content) :
       /\ editorContent' = afterProcessNoteWithAI(editorContent, out)
       /\ ev' = Event("processNoteWithAI", "ai", Result(~out.threw),
                      IF out.threw THEN "alert" ELSE "")
  /\ isProcessingAI' = FALSE
  /\ tasks' = RemoveAt(tasks, i)
  /\ UNCHANGED <<app, currentUser, currentView, notes, selectedNote, editorTitle,
                 isSaving, isLoadingAuth, remote, nextId, searchQuery, skew>>

Next ==
  \/ \E i \in 1..Len(tasks) : getSessionUserDone(i)
  \/ \E i \in 1..Len(tasks) : loadNotesDone(i)
  \/ \E cred \in Users \cup {NoUser} : \E authMode \in AuthModes : handleAuth(cred, authMode)
  \/ \E i \in 1..Len(tasks) : handleAuthDone(i)
  \/ handleLogout
  \/ \E i \in 1..Len(tasks) : handleLogoutDone(i)
  \/ \E note \in Elems(Displayed) : openNote(note)
  \/ createNewNote
  \/ \E t \in EditTitles : setEditorTitle(t)
  \/ \E c \in EditContents : setEditorContent(c)
  \/ handleBack
  \/ backButton
  \/ \E i \in 1..Len(tasks) : saveNoteDone(i)
  \/ \E confirmed \in BOOLEAN : deleteCurrentNote(confirmed)
  \/ \E i \in 1..Len(tasks) : deleteNoteDone(i)
  \/ Tick

Spec == Init /\ [][Next]_vars

----------------------------------------------------------------------------
(* The editor on its own: a signed-in user with the editor open on a new    *)
(* draft or on an existing note, and a draft drawn from every short string  *)
(* and from long first lines around the TitleMax cut.  Reaching the editor  *)
(* has used all but two of the gestures.                                    *)

TitleChars == {"a", SP}

ContentChars == {"a", SP, NL}

RECURSIVE Strings(_, _)
Strings(A, n) ==
  IF n = 0 THEN {<<>>}
  ELSE Strings(A, n - 1) \cup {Append(s, ch) : s \in Strings(A, n - 1), ch \in A}

RECURSIVE Repeat(_, _)
Repeat(ch, n) == IF n = 0 THEN <<>> ELSE <<ch>> \o Repeat(ch, n - 1)

LongLine == Repeat("x", TitleMax - 1)

Titles == Strings(TitleChars, MaxTail)

Contents ==
  Strings(ContentChars, MaxTail) \cup {LongLine \o s : s \in Strings(ContentChars, MaxTail)}

Existing == Note(1, "u1", <<"a">>, <<"b">>, 0)

InitEditor ==
  /\ app \in Apps
  /\ currentUser = "u1"
  /\ currentView = "EDITOR"
  /\ notes = <<Existing>>
  /\ selectedNote \in {Null, Existing}
  /\ editorTitle \in Titles
  /\ editorContent \in Contents
  /\ isSaving = FALSE
  /\ isLoadingAuth = FALSE
  /\ db = {Existing}
  /\ session = "u1"
  /\ now = 1
  /\ nextId = 2
  /\ tasks = <<>>
  /\ ev = Event("edit", "", "", "")
  /\ steps = MaxActions - 2
  /\ searchQuery = <<>>
  /\ isProcessingAI = FALSE
  /\ skew = 0

NextEditor ==
  \/ handleBack
  \/ backButton
  \/ \E i \in 1..Len(tasks) : saveNoteDone(i)
  \/ \E i \in 1..Len(tasks) : loadNotesDone(i)

SpecEditor == InitEditor /\ [][NextEditor]_vars

----------------------------------------------------------------------------
(* The list view on its own: a signed-in user looking at a loaded           *)
(* collection, typing in the search box and opening notes while time        *)
(* passes.  The collection is ordered as getNotes orders it.                *)

MaxQuery == 2

MaxNotes == 2

Queries == Strings(QueryChars, MaxQuery)

ListTitles == {<<"A", "b">>, <<"b">>}

ListContents == {<<>>, <<"a", "B">>}

NowList == ThirtyDays + 2 * TicksPerDay

Ages ==
  {0 - TicksPerDay, 0, 1, TicksPerDay, TicksPerDay + 1,
   ThirtyDays - 1, ThirtyDays, ThirtyDays + 1}

ListNotes(id) ==
  {Note(id, "u1", t, c, NowList - a) : t \in ListTitles, c \in ListContents, a \in Ages}

RECURSIVE Collections(_)
Collections(n) ==
  IF n = 0 THEN {<<>>}
  ELSE Collections(n - 1) \cup
       {Append(q, x) : q \in {r \in Collections(n - 1) : Len(r) = n - 1},
                       x \in ListNotes(n)}

IsOrderedDesc(q) ==
  \A i, j \in 1..Len(q) : i < j => q[i].updated_at >= q[j].updated_at

InitList ==
  /\ app \in Apps
  /\ currentUser = "u1"
  /\ currentView = "LIST"
  /\ notes \in {q \in Collections(MaxNotes) : IsOrderedDesc(q)}
  /\ selectedNote = Null
  /\ editorTitle = <<>>
  /\ editorContent = <<>>
  /\ isSaving = FALSE
  /\ isLoadingAuth = FALSE
  /\ db = Elems(notes)
  /\ session = "u1"
  /\ now \in {NowList, NowList + 1}
  /\ nextId = Len(notes) + 1
  /\ tasks = <<>>
  /\ ev = Event("list", "", "", "")
  /\ steps = MaxActions - 2
  /\ searchQuery = <<>>
  /\ isProcessingAI = FALSE
  /\ skew = 0

NextList ==
  \/ \E q \in Queries : setSearchQuery(q)
  \/ \E note \in Elems(Displayed) : openNote(note)
  \/ Tick

SpecList == InitList /\ [][NextList]_vars

----------------------------------------------------------------------------
(* part_000's editor with its AI menu: a signed-in user edits a draft, asks *)
(* for AI transforms and leaves by the back button.                         *)

AIContents == {<<>>, <<"b">>, <<"b", SP>>}

InitAI ==
  /\ app = "part_000"
  /\ currentUser = "u1"
  /\ currentView = "EDITOR"
  /\ notes = <<Existing>>
  /\ selectedNote \in {Null, Existing}
  /\ editorTitle \in EditTitles
  /\ editorContent \in AIContents
  /\ isSaving = FALSE
  /\ isLoadingAuth = FALSE
  /\ db = {Existing}
  /\ session = "u1"
  /\ now = 1
  /\ nextId = 2
  /\ tasks = <<>>
  /\ ev = Event("edit", "", "", "")
  /\ steps = MaxActions - 3
  /\ searchQuery = <<>>
  /\ isProcessingAI = FALSE
  /\ skew = 0

NextAI ==
  \/ \E action \in AIActionType : handleAIAction(action)
  \/ \E i \in 1..Len(tasks) : processNoteWithAIDone(i)
  \/ \E c \in AIContents : ~aiOverlay /\ setEditorContent(c)
  \/ ~aiOverlay /\ backButton
  \/ \E i \in 1..Len(tasks) : saveNoteDone(i)
  \/ \E i \in 1..Len(tasks) : loadNotesDone(i)

SpecAI == InitAI /\ [][NextAI]_vars

----------------------------------------------------------------------------
(* Properties *)

LoadsInFlight(q) == Cardinality({i \in 1..Len(q) : q[i].pc = "load"})

Blank(s) == \A i \in 1..Len(s) : IsSpace(s[i])

Written == db \ {Existing}

HasNote(q, id) == \E k \in 1..Len(q) : q[k].id = id

(* C1: when the upsert issued by save fails, the step that handles the      *)
(* failure leaves the local collection (and the store) as they were, puts   *)
(* no reload in flight, and alerts the user; the synchronous part of save   *)
(* does not touch the local collection either.                              *)
C1_FailedSaveLeavesNotes ==
  [][/\ (ev'.h = "saveCurrentNote" => notes' = notes)
     /\ (ev'.h = "saveNote" /\ ev'.res = "err")
          => /\ notes' = notes
             /\ db' = db
             /\ LoadsInFlight(tasks') <= LoadsInFlight(tasks)
             /\ ev'.out = "alert"]_vars

C1_Witness ==
  /\ ev.h = "saveNote" /\ ev.res = "err" /\ ev.out = "alert"
  /\ notes # <<>>

(* C2: a load whose fetch fails leaves a non-empty local collection as it   *)
(* was.                                                                     *)
C2_FailedLoadKeepsNotes ==
  [][(ev'.h = "loadNotes" /\ ev'.res = "err" /\ notes # <<>>) => notes' = notes]_vars

(* C3: every note sent to the store by save, and every row of the store,    *)
(* has a non-empty title.                                                   *)
C3_PersistedTitleNonEmpty ==
  /\ \A r \in db : r.title # <<>>
  /\ \A i \in 1..Len(tasks) : tasks[i].op = "save" => tasks[i].note.title # <<>>

C3_Witness ==
  /\ Blank(editorTitle) /\ editorTitle # <<>>
  /\ editorContent # <<>> /\ Head(editorContent) = NL
  /\ selectedNote = Existing
  /\ Written # {}

(* C4: the local collection holds at most one note per id. *)
C4_OneNotePerId ==
  \A i, j \in 1..Len(notes) : notes[i].id = notes[j].id => i = j

(* Two saves of the same existing note have both been written; the reload  *)
(* of one has completed and shows the note once.                            *)
C4_Witness ==
  /\ ev.h = "loadNotes" /\ ev.op = "save" /\ ev.res = "ok"
  /\ Len(notes) = 1
  /\ db = {notes[1]}
  /\ nextId = 2
  /\ \E i \in 1..Len(tasks) :
       /\ tasks[i].op = "save" /\ tasks[i].pc = "load" /\ tasks[i].prev = "ok"
       /\ tasks[i].note.id = notes[1].id

(* C5: every note of the local collection belongs to the current user. *)
C5_OwnerHomogeneous ==
  \A i \in 1..Len(notes) : notes[i].user_id = currentUser

(* C6: a save of a draft whose title and content are both blank starts no   *)
(* remote call and leaves the store and the local collection as they were.  *)
C6_BlankSaveIsDiscard ==
  [][(ev'.h = "saveCurrentNote" /\ Blank(editorTitle) /\ Blank(editorContent))
       => /\ tasks' = tasks
          /\ db' = db
          /\ notes' = notes
          /\ nextId' = nextId]_vars

C6_Witness ==
  /\ ev.h = "saveCurrentNote" /\ ev.out = "discard"
  /\ selectedNote = Existing
  /\ editorTitle = <<SP>>
  /\ editorContent = <<SP, NL>>
  /\ currentView = "LIST"

(* C7: when the reload of a save whose upsert succeeded completes with a    *)
(* successful fetch made as the saving user, the local collection holds a   *)
(* note with the saved id, title and content, and that title is not empty.  *)
C7_ReadYourWrites ==
  [][\A i \in 1..Len(tasks) :
       (/\ tasks[i].op = "save" /\ tasks[i].pc = "load" /\ tasks[i].prev = "ok"
        /\ tasks[i].tok = tasks[i].user
        /\ tasks' = RemoveAt(tasks, i)
        /\ ev'.h = "loadNotes" /\ ev'.res = "ok")
       => \E k \in 1..Len(notes') :
            /\ notes'[k].id = tasks[i].note.id
            /\ notes'[k].title = tasks[i].note.title
            /\ notes'[k].content = tasks[i].note.content
            /\ notes'[k].title # <<>>]_vars

(* C8: when the trimmed draft title is not empty, the note written has the  *)
(* trimmed draft title and the draft content.                               *)
C8_TitledDraftPersisted ==
  \A r \in Written :
    Trim(editorTitle) # <<>> => r.title = Trim(editorTitle) /\ r.content = editorContent

(* The first-line prefix of c: the longest prefix of at most TitleMax       *)
(* characters that holds no line break.                                     *)
IsFirstLinePrefix(p, c) ==
  /\ Len(p) <= Len(c) /\ Len(p) <= TitleMax
  /\ \A i \in 1..Len(p) : p[i] = c[i] /\ p[i] # NL
  /\ Len(p) = TitleMax \/ Len(p) = Len(c) \/ c[Len(p) + 1] = NL

(* C9: in part_001, when the draft title is blank and the content is not,   *)
(* the note written has the first-line prefix of the content as title, or   *)
(* 'New Note' when that prefix is empty, and the draft content unchanged.   *)
C9_TitleInference ==
  (app = "part_001" /\ Blank(editorTitle) /\ ~Blank(editorContent))
    => \A r \in Written :
         /\ r.content = editorContent
         /\ \E n \in 0..Len(editorContent) :
              LET p == SubSeq(editorContent, 1, n) IN
              /\ IsFirstLinePrefix(p, editorContent)
              /\ r.title = IF p = <<>> THEN NewNote ELSE p

C9_Witness ==
  /\ app = "part_001"
  /\ editorTitle = <<SP>>
  /\ Len(FirstLine(editorContent)) > TitleMax
  /\ \E r \in Written : Len(r.title) = TitleMax /\ r.content = editorContent

(* C10: deleting a persisted note starts a remote delete; when the delete   *)
(* and the reload after it succeed, the local collection no longer holds    *)
(* the note and still holds every other note it held.                       *)
C10_DeleteRemovesNote ==
  [][/\ (ev'.h = "deleteCurrentNote" /\ ev'.out = "deleting")
          => \E t \in Elems(tasks') : t.pc = "delete" /\ t.note.id = selectedNote.id
     /\ \A i \in 1..Len(tasks) :
          (/\ tasks[i].op = "delete" /\ tasks[i].pc = "load" /\ tasks[i].prev = "ok"
           /\ tasks' = RemoveAt(tasks, i)
           /\ ev'.h = "loadNotes" /\ ev'.res = "ok")
          => /\ ~HasNote(notes', tasks[i].note.id)
             /\ \A n \in Elems(notes) :
                  n.id # tasks[i].note.id => HasNote(notes', n.id)]_vars

(* C11: deleting a draft that has no selected note starts no remote call    *)
(* (no task is created, so neither a delete nor a fetch is issued) and      *)
(* leaves the local collection and the store as they were; the editor is    *)
(* left for the list.                                                       *)
C11_DraftDeleteIsLocal ==
  [][(ev'.h = "deleteCurrentNote" /\ selectedNote = Null)
       => /\ tasks' = tasks
          /\ db' = db
          /\ notes' = notes
          /\ currentView' = "LIST"]_vars

(* A typed, never saved draft has been deleted while the user has a note    *)
(* in the store and in the list.                                            *)
C11_Witness ==
  /\ ev.h = "deleteCurrentNote" /\ ev.out = "discard"
  /\ selectedNote = Null
  /\ editorTitle # <<>>
  /\ currentUser # NoUser
  /\ notes # <<>> /\ db # {}
  /\ tasks = <<>>

(* C12: a failed remote delete leaves the store as it was and goes on to    *)
(* the reload; when that reload completes, the operation ends in the list   *)
(* and the local collection still holds the note.                           *)
C12_FailedDeleteKeepsNote ==
  [][/\ (ev'.h = "deleteNote" /\ ev'.res = "err")
          => /\ db' = db
             /\ LoadsInFlight(tasks') = LoadsInFlight(tasks) + 1
     /\ \A i \in 1..Len(tasks) :
          (/\ tasks[i].op = "delete" /\ tasks[i].pc = "load" /\ tasks[i].prev = "err"
           /\ tasks' = RemoveAt(tasks, i)
           /\ ev'.h = "loadNotes")
          => /\ currentView' = "LIST"
             /\ HasNote(notes', tasks[i].note.id)]_vars

MutationsInFlight(q) ==
  Cardinality({i \in 1..Len(q) : q[i].pc \in {"upsert", "delete"}})

(* C13: neither step of sign-out (the request, its completion) changes the  *)
(* store or puts an upsert or a delete in flight, and the completion sets   *)
(* the local collection to empty, whether or not the sign-out request       *)
(* succeeded.                                                               *)
C13_LogoutClearsLocalOnly ==
  [][(ev'.op = "logout")
       => /\ db' = db
          /\ MutationsInFlight(tasks') = MutationsInFlight(tasks)
          /\ (ev'.h = "logoutUser"
                => notes' = <<>> /\ currentUser' = NoUser /\ currentView' = "AUTH")]_vars

(* Sign-out has completed after a note was saved in this session: the      *)
(* store still holds both notes and the local collection is empty.          *)
C13_Witness ==
  /\ ev.h = "logoutUser" /\ ev.res = "ok"
  /\ Cardinality(db) = 2
  /\ notes = <<>>
  /\ session = NoUser

SameLetter(x, y) == x = y \/ {x, y} \in {{"a", "A"}, {"b", "B"}}

(* q occurs in s when the case of letters is ignored *)
ContainsIgnoringCase(s, q) ==
  \E i \in 0..(Len(s) - Len(q)) : \A k \in 1..Len(q) : SameLetter(s[i + k], q[k])

Matching(n) ==
  ContainsIgnoringCase(n.title, searchQuery) \/ ContainsIgnoringCase(n.content, searchQuery)

(* The result of the search filter of the running revision *)
SearchResult ==
  IF app = "part_000" THEN filteredNotes(notes, searchQuery)
  ELSE filtered(notes, searchQuery)

Position(n) == CHOOSE i \in 1..Len(notes) : notes[i] = n

(* C14: the search result holds exactly the notes of the collection whose   *)
(* title or content contains the query with case ignored, each once and in  *)
(* the order of the collection; for the empty query it is the collection.   *)
C14_SearchFilter ==
  LET R == SearchResult IN
  /\ \A k \in 1..Len(R) : R[k] \in Elems(notes) /\ Matching(R[k])
  /\ \A i \in 1..Len(notes) : Matching(notes[i]) => notes[i] \in Elems(R)
  /\ Len(R) = Cardinality({i \in 1..Len(notes) : Matching(notes[i])})
  /\ \A k, l \in 1..Len(R) : k < l => Position(R[k]) < Position(R[l])
  /\ searchQuery = <<>> => R = notes

(* A query in lower case selects the second of two notes by the capital    *)
(* letters of its title.                                                    *)
C14_Witness ==
  /\ ev.h = "setSearchQuery"
  /\ searchQuery = <<"a", "b">>
  /\ Len(notes) = 2
  /\ SearchResult = <<notes[2]>>
  /\ notes[2].title = <<"A", "b">> /\ notes[2].content = <<>>

Groups == groupedNotes(notes, searchQuery, clientNow)

(* The places (bucket, index) where note n occurs in the groups *)
Places(n) ==
  {<<g, k>> \in (DOMAIN Groups) \X (1..Len(notes)) : k <= Len(Groups[g]) /\ Groups[g][k] = n}

(* C15: in part_001, for a non-empty collection and the reference time      *)
(* now, the groups are the four buckets, every note that passes the filter  *)
(* occurs in exactly one place of exactly one bucket, and nothing else      *)
(* occurs in any bucket.                                                    *)
C15_GroupsPartition ==
  (app = "part_001" /\ notes # <<>>)
    => /\ DOMAIN Groups = {"Today", "Yesterday", "Previous 30 Days", "Older"}
       /\ \A n \in Elems(notes) :
            Cardinality(Places(n)) = IF Matching(n) THEN 1 ELSE 0
       /\ \A g \in DOMAIN Groups : \A k \in 1..Len(Groups[g]) :
            Groups[g][k] \in Elems(notes) /\ Matching(Groups[g][k])

(* One of two notes passes the filter and is in a bucket; the other is in   *)
(* none.                                                                    *)
C15_Witness ==
  /\ app = "part_001"
  /\ Len(notes) = 2
  /\ searchQuery # <<>>
  /\ Matching(notes[1]) /\ ~Matching(notes[2])
  /\ Groups["Older"] = <<notes[1]>>
  /\ Places(notes[2]) = {}

InBucket(n, g) == \E k \in 1..Len(Groups[g]) : Groups[g][k] = n

(* C16: in part_001, a note that passes the filter is in Today iff it was   *)
(* updated on the calendar day of now, in Yesterday iff on the calendar     *)
(* day before, in Previous 30 Days iff in neither and now minus its         *)
(* update time is under thirty days, and in Older otherwise; within a       *)
(* bucket notes are in the order of the collection.                         *)
C16_BucketAssignment ==
  (app = "part_001" /\ notes # <<>>)
    => /\ \A n \in Elems(notes) :
            Matching(n) =>
              LET today     == Day(n.updated_at) = Day(clientNow)
                  yesterday == Day(n.updated_at) = Day(clientNow) - 1
                  recent    == ~today /\ ~yesterday /\ clientNow - n.updated_at < ThirtyDays
              IN /\ InBucket(n, "Today") <=> today
                 /\ InBucket(n, "Yesterday") <=> yesterday
                 /\ InBucket(n, "Previous 30 Days") <=> recent
                 /\ InBucket(n, "Older") <=> (~today /\ ~yesterday /\ ~recent)
       /\ \A g \in DOMAIN Groups : \A k, l \in 1..Len(Groups[g]) :
            k < l => Position(Groups[g][k]) < Position(Groups[g][l])

(* With a query typed that both notes pass, the note updated just under    *)
(* thirty days ago is in Previous 30 Days and the one updated exactly       *)
(* thirty days ago is in Older.                                             *)
C16_Witness ==
  /\ app = "part_001"
  /\ ev.h = "setSearchQuery" /\ searchQuery # <<>>
  /\ Len(notes) = 2
  /\ Groups["Previous 30 Days"] = <<notes[1]>>
  /\ clientNow - notes[1].updated_at = ThirtyDays - 1
  /\ Groups["Older"] = <<notes[2]>>
  /\ clientNow - notes[2].updated_at = ThirtyDays

(* C17: a load whose fetch succeeds sets the local collection to the rows   *)
(* of the store that belong to the user it was started for (as the request  *)
(* may see them), each once, most recently updated first, whatever the      *)
(* collection held before.                                                  *)
C17_LoadReplaces ==
  [][(ev'.h = "loadNotes" /\ ev'.res = "ok")
       => \E i \in 1..Len(tasks) :
            /\ tasks[i].pc = "load" /\ tasks' = RemoveAt(tasks, i)
            /\ Elems(notes') = Visible(db, tasks[i].user, tasks[i].tok)
            /\ Len(notes') = Cardinality(Elems(notes'))
            /\ IsOrderedDesc(notes')]_vars

(* The reload after a save has replaced a one-note collection by the two    *)
(* notes of the store, the newer one first.                                 *)
C17_Witness ==
  /\ ev.h = "loadNotes" /\ ev.op = "save" /\ ev.res = "ok"
  /\ Len(notes) = 2
  /\ notes[1].updated_at > notes[2].updated_at
  /\ Elems(notes) = db

(* C18: a successful write of a note that is in the store never leaves the *)
(* stored update time of that note lower than it was.                       *)
C18_UpdatedAtMonotonic ==
  [][(ev'.h = "saveNote" /\ ev'.res = "ok")
       => \A r \in db : \A w \in db' :
            w.id = r.id => w.updated_at >= r.updated_at]_vars

(* C19: when the call of processNoteWithAI fails, the step that handles the *)
(* failure leaves the editor content as it was, which is the content the    *)
(* action was started with, alerts the user and clears isProcessingAI.      *)
C19_FailedAIKeepsContent ==
  [][(ev'.h = "processNoteWithAI" /\ ev'.res = "err")
       => /\ editorContent' = editorContent
          /\ \E i \in 1..Len(tasks) :
               /\ tasks[i].pc = "ai" /\ tasks' = RemoveAt(tasks, i)
               /\ editorContent' = tasks[i].note.content
          /\ isProcessingAI /\ ~isProcessingAI'
          /\ ev'.out = "alert"]_vars

(* A transform of a typed content has failed while the save started by the  *)
(* back button was in flight.                                               *)
C19_Witness ==
  /\ ev.h = "processNoteWithAI" /\ ev.res = "err"
  /\ editorContent = <<"b", SP>>
  /\ ~isProcessingAI
  /\ \E i \in 1..Len(tasks) : tasks[i].op = "save"

(* C20: no step of any handler ends as an uncaught fault: whatever remote   *)
(* call fails, the handler ends with a value it handles, or in its catch    *)
(* block, or with a message shown to the user.                              *)
C20_NoUncaughtFault ==
  /\ ev.out # "fault"
  /\ ev.res = "err" => ev.out \in {"", "alert", "authError", "authSuccess", "caught"}

(* A remote delete has failed inside deleteCurrentNote, which has no try /  *)
(* catch, and the handler has gone on to its reload.                        *)
C20_Witness ==
  /\ ev.h = "deleteNote" /\ ev.res = "err" /\ ev.out = ""
  /\ \E i \in 1..Len(tasks) :
       tasks[i].op = "delete" /\ tasks[i].pc = "load" /\ tasks[i].prev = "err"

InFlight(q, op, pc) ==
  Cardinality({i \in 1..Len(q) : q[i].op = op /\ q[i].pc = pc})

(* C21: the reload of a save is put in flight only by the step in which     *)
(* the upsert of that save returns successfully, and the reload of a delete *)
(* only by the step in which its delete returns; in that step the write     *)
(* leaves flight, so a handler never has its write and its fetch in flight  *)
(* together.                                                                *)
C21_WriteThenReload ==
  [][/\ InFlight(tasks', "save", "load") > InFlight(tasks, "save", "load")
          => /\ ev'.h = "saveNote" /\ ev'.res = "ok"
             /\ InFlight(tasks', "save", "upsert") = InFlight(tasks, "save", "upsert") - 1
             /\ InFlight(tasks', "save", "load") = InFlight(tasks, "save", "load") + 1
     /\ InFlight(tasks', "delete", "load") > InFlight(tasks, "delete", "load")
          => /\ ev'.h = "deleteNote"
             /\ InFlight(tasks', "delete", "delete") = InFlight(tasks, "delete", "delete") - 1
             /\ InFlight(tasks', "delete", "load") = InFlight(tasks, "delete", "load") + 1
     /\ \A i \in 1..Len(tasks') :
          (tasks'[i].op = "save" /\ tasks'[i].pc = "load") => tasks'[i].prev = "ok"]_vars

(* The upsert of a save has returned and its reload is the only request in  *)
(* flight.                                                                  *)
C21_Witness ==
  /\ ev.h = "saveNote" /\ ev.res = "ok"
  /\ Len(tasks) = 1
  /\ tasks[1].op = "save" /\ tasks[1].pc = "load"
  /\ \E r \in db : r.id = tasks[1].note.id

(* C22: no two save or delete operations of the same user are outstanding  *)
(* together.                                                                *)
C22_MutationsSerialized ==
  \A i, j \in 1..Len(tasks) :
    (/\ tasks[i].op \in {"save", "delete"}
     /\ tasks[j].op \in {"save", "delete"}
     /\ tasks[i].user = tasks[j].user)
      => i = j

(* C23: the local collection starts empty; every step that changes it       *)
(* leaves in it only rows that are in the store, and a row enters the       *)
(* store or changes there only in the step in which an upsert of its id     *)
(* succeeds.  So a note is in the local collection only after an upsert of  *)
(* its id has succeeded; creating, editing or failing to save a draft adds  *)
(* nothing to it.                                                           *)
C23_OnlyPersistedNotes ==
  [][/\ notes' # notes => Elems(notes') \subseteq db'
     /\ \A w \in db' \ db :
          /\ ev'.h = "saveNote" /\ ev'.res = "ok"
          /\ \E i \in 1..Len(tasks) : tasks[i].pc = "upsert" /\ tasks[i].note.id = w.id
     /\ ev'.h \in {"createNewNote", "setEditorTitle", "setEditorContent", "saveCurrentNote"}
          => notes' = notes
     /\ (ev'.h = "saveNote" /\ ev'.res = "err") => notes' = notes /\ db' = db]_vars

(* The save of a new, titled draft has failed: the draft's id was drawn but *)
(* no note of the local collection has it.                                  *)
C23_Witness ==
  /\ ev.h = "saveNote" /\ ev.res = "err"
  /\ selectedNote = Null
  /\ editorTitle # <<>>
  /\ nextId = Cardinality(db) + 2
  /\ notes # <<>>
  /\ ~HasNote(notes, nextId - 1)

(* C24: while no user is signed in (before the first sign-in and from the   *)
(* completion of a sign-out to the next sign-in) the local collection is    *)
(* empty and the view is the auth screen.                                   *)
C24_SignedOutStaysEmpty ==
  currentUser = NoUser => notes = <<>> /\ currentView = "AUTH"

(* C25: the step that handles a failed upsert leaves the view and the       *)
(* draft (selected note, title, content) as they were and clears isSaving;  *)
(* and the save handler moves the view from the editor to the list only in  *)
(* a discard or in the reload that follows a successful upsert.             *)
C25_FailedSaveKeepsDraft ==
  [][/\ (ev'.h = "saveNote" /\ ev'.res = "err")
          => /\ currentView' = currentView
             /\ editor' = editor
             /\ ~isSaving'
     /\ (ev'.op = "save" /\ currentView = "EDITOR" /\ currentView' = "LIST")
          => \/ ev'.h = "saveCurrentNote" /\ ev'.out = "discard"
             \/ /\ ev'.h = "loadNotes"
                /\ \E i \in 1..Len(tasks) :
                     /\ tasks' = RemoveAt(tasks, i)
                     /\ tasks[i].op = "save" /\ tasks[i].prev = "ok"]_vars

(* The only save in flight has failed: the editor is still open on the      *)
(* typed draft and isSaving is false again.                                 *)
C25_Witness ==
  /\ ev.h = "saveNote" /\ ev.res = "err"
  /\ currentView = "EDITOR"
  /\ editorTitle # <<>> /\ editorContent # <<>>
  /\ ~isSaving
  /\ tasks = <<>>

====
